---- MODULE Spec2Model ----
(***************************************************************************)
(* Payroll / attendance core of the AMAS HR portal.                        *)
(*                                                                         *)
(* The relational tables are sequences of rows (index = serial id).  A     *)
(* nullable column holds <<>> for SQL NULL and <<v>> for a value.  Dates   *)
(* are day numbers of a calendar whose months all have DaysPerMonth days.  *)
(***************************************************************************)
EXTENDS Integers, Sequences, FiniteSets, TLC

\* ---------------------------------------------------------------- bounds
MaxMonth     == 1      \* calendar months 0..MaxMonth
DaysPerMonth == 1      \* days in a model month
MaxEmp       == 2      \* employees that can be hired
MaxSalary    == 3      \* largest salary amount typed into a form
MaxHist      == 3      \* rows of hr_salary_history
MaxAmount    == 1      \* largest adjustment amount typed into a form
MaxLog       == 1      \* rows of hr_salary_log
NumSessions  == 2      \* operator sessions (browser tabs) on the salary page
MaxSched     == 2      \* rows of hr_attendance_history
MaxPosted    == 2      \* adjustments already in the log when a summary is checked
MaxPunch     == 1      \* rows of hr_attendance

\* ---------------------------------------------------- program constants
RaiseMonths  == 24     \* periods=24 of the effective-month select box
Date2100     == 36525  \* datetime.date(2100,1,1): "blank = open" in the schedule modal
DaySecs      == 86400  \* "+ 86400" of SQL_SHIFT_HRS: seconds in a day
HourSecs     == 3600   \* "/ 3600" of SQL_SHIFT_HRS: seconds in an hour
GraceMinutes == 5      \* datetime.timedelta(minutes=5) of the late flag
ShiftHours   == 30600  \* SHIFT_HOURS = 8.5, in seconds

Months   == 0..MaxMonth
Dates    == 0..((MaxMonth + 1) * DaysPerMonth - 1)
NULL     == <<>>

Sessions == 1..NumSessions

\* a time of day, in seconds after midnight (EXTRACT(EPOCH FROM time))
T(h, m, sec) == h * HourSecs + m * 60 + sec

\* the expected clock-in / clock-out times typed into the schedule forms
ShiftTimes == {T(6, 0, 0), T(8, 0, 0), T(22, 0, 0), T(23, 58, 0)}

\* the times of day at which a punch is recorded
PunchTimes == {T(0, 1, 0), T(8, 0, 0), T(8, 5, 0), T(8, 5, 1), T(23, 59, 0)}

\* the times of day at which a page of the attendance module is run
ClockTimes == {T(12, 0, 0), T(23, 59, 0)}
TxnTypes == {"bonus", "extra", "fine"}

VARIABLES
  today,              \* datetime.date.today() / CURRENT_DATE
  hr_employee,        \* set of employeeid
  hr_salary_history,  \* committed rows of hr_salary_history
  hr_salary_log,      \* committed rows of hr_salary_log
  hr_salary_pushed,   \* committed rows of hr_salary_pushed (the ledger)
  cache,              \* st.cache_data of fetch_month, keyed by month
  hr_attendance_history, \* committed rows of hr_attendance_history (schedules)
  hr_attendance,      \* rows of hr_attendance (punches)
  out,                \* the data frame the last run of a read-only page showed
  pc,                 \* per session: where its run of tab_push stands
  run,                \* per session: month_first and df of that run
  tx                  \* the open write transaction, or NoTx

vars == <<today, hr_employee, hr_salary_history, hr_salary_log,
          hr_salary_pushed, hr_attendance_history, hr_attendance, out,
          cache, pc, run, tx>>

NoTx  == [kind |-> "none"]
NoRun == [month |-> 0, df |-> <<>>]
NoOut == [page |-> "none"]

\* ------------------------------------------------------------- calendar
MonthOf(d)  == d \div DaysPerMonth
FirstDay(m) == m * DaysPerMonth
LastDay(m)  == FirstDay(m) + DaysPerMonth - 1

\* month_bounds(anchor): first and last day of anchor's month
month_bounds(anchor) == <<FirstDay(MonthOf(anchor)), LastDay(MonthOf(anchor))>>

\* the effective-month select box: the current month and the 23 before it
\* (months before the model calendar's origin are outside the model)
eff_months == {m \in Months : m <= MonthOf(today) /\ m > MonthOf(today) - RaiseMonths}

\* ------------------------------------------------------- salary history
\* a bug: the UPDATE that closes the open row matches nothing
sql_close_nothing(hist, eid, close) == hist

\* a bug: the UPDATE has lost "employeeid = :eid"
sql_close_all(hist, eid, close) ==
  [i \in 1..Len(hist) |->
     IF hist[i].effective_to = NULL
     THEN [hist[i] EXCEPT !.effective_to = <<close>>]
     ELSE hist[i]]

\* a bug: the open row is closed a day too early
sql_close_day_early(hist, eid, close) ==
  [i \in 1..Len(hist) |->
     IF hist[i].employeeid = eid /\ hist[i].effective_to = NULL
     THEN [hist[i] EXCEPT !.effective_to = <<close - 1>>]
     ELSE hist[i]]

\* UPDATE hr_salary_history SET effective_to = :close
\*  WHERE employeeid = :eid AND effective_to IS NULL
sql_close(hist, eid, close) ==
  [i \in 1..Len(hist) |->
     IF hist[i].employeeid = eid /\ hist[i].effective_to = NULL
     THEN [hist[i] EXCEPT !.effective_to = <<close>>]
     ELSE hist[i]]

\* INSERT INTO hr_salary_history (employeeid, salary, effective_from, reason)
sql_new(hist, eid, sal, eff) ==
  Append(hist, [employeeid |-> eid, salary |-> sal,
                effective_from |-> eff, effective_to |-> NULL])

\* a bug: the statements run in autocommit, each visible as soon as executed
autocommit_visible(committed, staged) == staged

\* A statement run inside "with engine.begin()": what other connections see
\* of it before the block commits is the committed table, not the staged one.
begin_visible(committed, staged) == committed

\* a bug: leaving the block on an exception keeps what was executed
rollback_keeps(committed, staged) == staged

\* leaving "with engine.begin()" on an exception rolls the block back
rollback(committed, staged) == committed

\* tab_raise cur_sql: the salary in force today (ORDER BY effective_from
\* DESC LIMIT 1 picks any of the rows tied for the latest effective_from);
\* 0.0 when no row covers today
cur_sal(eid) ==
  LET rows == {i \in 1..Len(hr_salary_history) :
                 /\ hr_salary_history[i].employeeid = eid
                 /\ hr_salary_history[i].effective_from <= today
                 /\ \/ hr_salary_history[i].effective_to = NULL
                    \/ hr_salary_history[i].effective_to[1] >= today}
      top  == {i \in rows : \A j \in rows :
                 hr_salary_history[j].effective_from <= hr_salary_history[i].effective_from}
  IN IF rows = {} THEN {0} ELSE {hr_salary_history[i].salary : i \in top}

\* ------------------------------------------------------ monthly summary
\* fetch_month, base CTE: DISTINCT ON (employeeid) ... ORDER BY employeeid,
\* effective_from DESC keeps, of the rows whose window holds :s, any one of
\* those tied for the latest effective_from; COALESCE(base.salary, 0)
base_of(hist, eid, s) ==
  LET rows == {i \in 1..Len(hist) :
                 /\ hist[i].employeeid = eid
                 /\ hist[i].effective_from <= s
                 /\ \/ hist[i].effective_to = NULL
                    \/ hist[i].effective_to[1] >= s}
      top  == {i \in rows : \A j \in rows :
                 hist[j].effective_from <= hist[i].effective_from}
  IN IF rows = {} THEN {0} ELSE {hist[i].salary : i \in top}

\* a bug: the date filter leaves out the last day of the month
RECURSIVE adj_sum_exclusive(_, _, _, _, _)
adj_sum_exclusive(log, eid, kind, s, e) ==
  IF log = <<>> THEN 0
  ELSE LET r == Head(log) IN
       (IF r.employeeid = eid /\ r.txn_type = kind /\ s <= r.txn_date /\ r.txn_date < e
        THEN r.amount ELSE 0) + adj_sum_exclusive(Tail(log), eid, kind, s, e)

\* fetch_month, adj CTE: SUM(CASE WHEN txn_type = kind THEN amount END) over
\* the rows with txn_date BETWEEN :s AND :e; COALESCE(.., 0)
RECURSIVE adj_sum(_, _, _, _, _)
adj_sum(log, eid, kind, s, e) ==
  IF log = <<>> THEN 0
  ELSE LET r == Head(log) IN
       (IF r.employeeid = eid /\ r.txn_type = kind /\ s <= r.txn_date /\ r.txn_date <= e
        THEN r.amount ELSE 0) + adj_sum(Tail(log), eid, kind, s, e)

\* fetch_month, att CTE: SUM(EXTRACT(EPOCH FROM (COALESCE(clock_out, clock_in)
\* - clock_in))) over the punches with punch_date BETWEEN :s AND :e, in
\* seconds; COALESCE(att.worked, 0)
RECURSIVE att_worked(_, _, _, _)
att_worked(att, eid, s, e) ==
  IF att = <<>> THEN 0
  ELSE LET a == Head(att) IN
       (IF a.employeeid = eid /\ s <= a.punch_date /\ a.punch_date <= e
        THEN (IF a.clock_out = NULL THEN a.clock_in ELSE a.clock_out[1]) - a.clock_in
        ELSE 0) + att_worked(Tail(att), eid, s, e)

\* req_hours = SHIFT_HOURS * (days - 4) with days = (end_d - start_d).days + 1,
\* as the fraction num / den
req_hours(s, e) == [num |-> ShiftHours * (e - s + 1 - 4), den |-> HourSecs]

\* a bug: the fine is added to the net instead of taken off
summary_row_fine_added(base, bonus, extra, fine) ==
  [base |-> base, bonus |-> bonus, extra |-> extra, fine |-> fine,
   net |-> base + bonus + extra + fine]

\* one row of the data frame, with df["net"] = base + bonus + extra - fine
summary_row(base, bonus, extra, fine) ==
  [base |-> base, bonus |-> bonus, extra |-> extra, fine |-> fine,
   net |-> base + bonus + extra - fine]

\* fetch_month(start_d, end_d, req_h) without the cache: the data frames the
\* query can return, one row per row of hr_employee
fetch_month(emp, hist, log, att, m) ==
  LET s == month_bounds(FirstDay(m))[1]
      e == month_bounds(FirstDay(m))[2]
      row(eid, base) ==
        LET r == summary_row(base, adj_sum(log, eid, "bonus", s, e),
                             adj_sum(log, eid, "extra", s, e),
                             adj_sum(log, eid, "fine", s, e))
        IN [base |-> r.base, bonus |-> r.bonus, extra |-> r.extra, fine |-> r.fine,
            net |-> r.net,
            worked   |-> [num |-> att_worked(att, eid, s, e), den |-> HourSecs],
            required |-> req_hours(s, e),
            delta    |-> [num |-> att_worked(att, eid, s, e) - req_hours(s, e).num,
                          den |-> HourSecs]]
  IN { [eid \in emp |-> row(eid, b[eid])] :
       b \in {c \in [emp -> 0..MaxSalary] : \A eid \in emp : c[eid] \in base_of(hist, eid, s)} }

\* e.basicsalary: a column of hr_employee that no statement of the program
\* writes (the INSERT of add_employee_with_salary leaves it out): NULL or any
\* amount
BasicSalaries == {NULL} \cup {<<v>> : v \in 0..MaxSalary}

\* month_range(year, month) of the Monthly Payroll Review page
month_range(m) == <<FirstDay(m), LastDay(m)>>

\* one row of fetch_month_summary: base is e.basicsalary, and
\* df["net"] = df["base"] + df["bonus"] + df["extra"] - df["fine"] is the
\* missing value when base is
review_row(base, bonus, extra, fine) ==
  [base |-> base, bonus |-> bonus, extra |-> extra, fine |-> fine,
   net |-> IF base = NULL THEN NULL ELSE <<base[1] + bonus + extra - fine>>]

\* fetch_month_summary(start, end): hr_employee LEFT JOIN hr_salary_log ON the
\* employee and txn_date BETWEEN :s AND :e, grouped by employee
fetch_month_summary(emp, basicsalary, log, m) ==
  LET s == month_range(m)[1]
      e == month_range(m)[2]
  IN [eid \in emp |->
        review_row(basicsalary[eid], adj_sum(log, eid, "bonus", s, e),
                   adj_sum(log, eid, "extra", s, e), adj_sum(log, eid, "fine", s, e))]

\* st.cache_data.clear()
cache_clear == [m \in Months |-> <<>>]

\* a bug: the write is not followed by st.cache_data.clear()
cache_kept(c) == c

\* st.cache_data.clear() after a write: every cached data frame is dropped
st_cache_data_clear(c) == cache_clear

\* @st.cache_data fetch_month: the stored data frame when the key is cached
cached(c, emp, hist, log, att, m) ==
  IF c[m] # <<>> THEN {c[m][1]} ELSE fetch_month(emp, hist, log, att, m)

\* a bug: the existence check never reports a pushed month
never_pushed(m) == FALSE

\* SELECT COUNT(*) FROM hr_salary_pushed WHERE month = :m  ... > 0
already_pushed(m) == \E i \in 1..Len(hr_salary_pushed) : hr_salary_pushed[i].month = m

\* the INSERT of the finalize loop for one data-frame row
pushed_row(eid, m, row) ==
  [employeeid |-> eid, month |-> m, base |-> row.base, bonus |-> row.bonus,
   extra |-> row.extra, fine |-> row.fine, net |-> row.net]

\* a bug: the finalize writes the month's rows over the table
ledger_overwrite(pushed, rows) == rows

\* the ledger after the INSERTs of one finalize
ledger_insert(pushed, rows) == pushed \o rows

\* df.iterrows(): the employees of a data frame in row order
RECURSIVE df_order(_)
df_order(S) ==
  IF S = {} THEN <<>>
  ELSE LET x == CHOOSE y \in S : \A z \in S : y <= z IN <<x>> \o df_order(S \ {x})

\* ----------------------------------------------------------- attendance
\* .time() of a timestamp (timestamps are seconds since day 0, 00:00)
time_of(ts) == ts % DaySecs

\* a bug: the overnight branch is missing
sql_shift_hrs_same_day(clock_in, clock_out) ==
  [num |-> clock_out - clock_in, den |-> HourSecs]

\* SQL_SHIFT_HRS: the hours of the shift h.clock_in .. h.clock_out, as the
\* fraction num / den
sql_shift_hrs(clock_in, clock_out) ==
  IF clock_out >= clock_in
  THEN [num |-> clock_out - clock_in, den |-> HourSecs]
  ELSE [num |-> clock_out + DaySecs - clock_in, den |-> HourSecs]

\* the LEFT JOIN of SQL_DAY / SQL_RANGE: the schedule rows of the employee
\* with effective_from <= d and COALESCE(effective_to, d) >= d
schedule_join(sched, eid, d) ==
  {i \in 1..Len(sched) :
     /\ sched[i].employeeid = eid
     /\ sched[i].effective_from <= d
     /\ (IF sched[i].effective_to = NULL THEN d ELSE sched[i].effective_to[1]) >= d}

\* df["late"] of fetch_day / fetch_range: False without an expected_in, else
\* clock_in.time() > (combine(today, expected_in) + 5 minutes).time()
late(clock_in, expected_in) ==
  IF expected_in = NULL THEN FALSE
  ELSE time_of(clock_in) > (expected_in[1] + GraceMinutes * 60) % DaySecs

\* a bug: the clock-out is ignored, every punch counts up to now
secs_up_to_now(a, now) == now - a.clock_in

\* EXTRACT(EPOCH FROM (COALESCE(a.clock_out, NOW()) - a.clock_in)) AS secs
secs_of(a, now) ==
  (IF a.clock_out = NULL THEN now ELSE a.clock_out[1]) - a.clock_in

\* df["hours"] = df.secs / 3600, as the fraction num / den
hours_of(secs) == [num |-> secs, den |-> HourSecs]

\* one row of the result of SQL_DAY / SQL_RANGE with its df["hours"] and
\* df["late"]:
\* punch a joined to schedule row h (h = 0: no schedule row matched)
joined_row(sched, a, h, now) ==
  LET expected_in == IF h = 0 THEN NULL ELSE <<sched[h].clock_in>>
  IN [employeeid  |-> a.employeeid,
      punch_date  |-> a.punch_date,
      clock_in    |-> a.clock_in,
      clock_out   |-> a.clock_out,
      expected_in |-> expected_in,
      shift_hours |-> IF h = 0 THEN NULL
                      ELSE <<sql_shift_hrs(sched[h].clock_in, sched[h].clock_out)>>,
      secs        |-> secs_of(a, now),
      hours       |-> hours_of(secs_of(a, now)),
      late        |-> late(a.clock_in, expected_in)]

\* the elements of a set of numbers in ascending order
RECURSIVE ascending(_)
ascending(S) ==
  IF S = {} THEN <<>>
  ELSE LET x == CHOOSE y \in S : \A z \in S : y <= z IN <<x>> \o ascending(S \ {x})

\* the joined rows of the punches whose ids are in the sequence ids, in that
\* order (the rows of one punch in schedule-id order)
RECURSIVE joined_rows(_, _, _, _)
joined_rows(sched, att, ids, now) ==
  IF ids = <<>> THEN <<>>
  ELSE LET a  == att[Head(ids)]
           hs == schedule_join(sched, a.employeeid, a.punch_date)
           js == IF hs = {} THEN <<0>> ELSE ascending(hs)
       IN [k \in 1..Len(js) |-> joined_row(sched, a, js[k], now)]
            \o joined_rows(sched, att, Tail(ids), now)

\* the ids of the punches in S ordered by punch_date (then by id)
RECURSIVE by_punch_date(_, _)
by_punch_date(att, S) ==
  IF S = {} THEN <<>>
  ELSE LET x == CHOOSE y \in S : \A z \in S :
                  \/ att[y].punch_date < att[z].punch_date
                  \/ att[y].punch_date = att[z].punch_date /\ y <= z
       IN <<x>> \o by_punch_date(att, S \ {x})

\* df["net_str"] of fetch_day: f"{int(s//3600):02d} h {int((s%3600)//60):02d} m"
net_str(secs) == [h |-> secs \div HourSecs, m |-> (secs % HourSecs) \div 60]

\* a row of fetch_day: the joined row and its net_str
day_row(r) ==
  [employeeid |-> r.employeeid, punch_date |-> r.punch_date,
   clock_in |-> r.clock_in, clock_out |-> r.clock_out,
   expected_in |-> r.expected_in, shift_hours |-> r.shift_hours,
   secs |-> r.secs, hours |-> r.hours, net_str |-> net_str(r.secs), late |-> r.late]

\* fetch_day(day): SQL_DAY and the derived columns (ORDER BY e.fullname:
\* names are not modelled, the punches come in id order)
fetch_day(sched, att, day, now) ==
  LET rows == joined_rows(sched, att,
                          ascending({i \in 1..Len(att) : att[i].punch_date = day}), now)
  IN [k \in 1..Len(rows) |-> day_row(rows[k])]

\* fetch_range(eid, s, e): SQL_RANGE and the late column
fetch_range(sched, att, eid, s, e, now) ==
  joined_rows(sched, att,
              by_punch_date(att, {i \in 1..Len(att) :
                 /\ att[i].employeeid = eid
                 /\ s <= att[i].punch_date
                 /\ att[i].punch_date <= e}),
              now)

\* round(n / d) of Python for whole n and d > 0: the nearest whole number, a
\* half going to the even neighbour
round_half_even(n, d) ==
  LET q == n \div d
      r == n % d
  IN IF 2 * r < d THEN q
     ELSE IF 2 * r > d THEN q + 1
     ELSE IF q % 2 = 0 THEN q ELSE q + 1

\* tab_log, d["\Delta"] of one row: m = int(round((hours - shift_hours) * 60))
\* shown as sign, hours and minutes
delta_col(r) ==
  LET m == round_half_even(r.hours.num - r.shift_hours[1].num, 60)
      a == IF m >= 0 THEN m ELSE 0 - m
  IN [sign |-> IF m >= 0 THEN "+" ELSE "-", hh |-> a \div 60, mm |-> a % 60]

\* the lambda of d["\Delta"] raises on a row without shift_hours: hours minus
\* None is a TypeError, and round() of a NaN a ValueError
delta_raises(d) == \E k \in 1..Len(d) : d[k].shift_hours = NULL

\* d.hours.sum(), in seconds
RECURSIVE hours_sum(_)
hours_sum(d) == IF d = <<>> THEN 0 ELSE Head(d).secs + hours_sum(Tail(d))

\* d.shift_hours.sum(), in seconds: a pandas sum skips the missing values
RECURSIVE shift_hours_sum(_)
shift_hours_sum(d) ==
  IF d = <<>> THEN 0
  ELSE (IF Head(d).shift_hours = NULL THEN 0 ELSE Head(d).shift_hours[1].num)
       + shift_hours_sum(Tail(d))

\* f"{x:.2f}" of a number of hours given in seconds, in hundredths of an hour
fmt2(secs) == round_half_even(secs, 36)

\* the three st.metric of tab_log: Total, Required and their difference
log_totals(d) ==
  [Total    |-> fmt2(hours_sum(d)),
   Required |-> fmt2(shift_hours_sum(d)),
   Delta    |-> fmt2(hours_sum(d) - shift_hours_sum(d))]

\* every timestamp of the punch table is in the past at time now
recorded_by(att, now) ==
  \A i \in 1..Len(att) :
    /\ att[i].clock_in <= now
    /\ att[i].clock_out # NULL => att[i].clock_out[1] <= now

\* ------------------------------------------------------------ schedules
\* close_current_and_add, UPDATE: close the employee's open schedule rows
sched_close(sched, eid, close_to) ==
  [i \in 1..Len(sched) |->
     IF sched[i].employeeid = eid /\ sched[i].effective_to = NULL
     THEN [sched[i] EXCEPT !.effective_to = <<close_to>>]
     ELSE sched[i]]

\* update_schedule_row: UPDATE hr_attendance_history SET clock_in=..,
\* clock_out=.., effective_from=.., effective_to=.. WHERE att_id = :att_id
sched_update(sched, att_id, cin, cout, efff, efft) ==
  [sched EXCEPT ![att_id].clock_in = cin, ![att_id].clock_out = cout,
                ![att_id].effective_from = efff, ![att_id].effective_to = efft]

\* ---------------------------------------------------------------- Init
\* an empty database, on the last day of the model calendar
Init ==
  /\ today = LastDay(MaxMonth)
  /\ hr_employee = {}
  /\ hr_salary_history = <<>>
  /\ hr_salary_log = <<>>
  /\ hr_salary_pushed = <<>>
  /\ hr_attendance_history = <<>>
  /\ hr_attendance = <<>>
  /\ out = NoOut
  /\ cache = cache_clear
  /\ pc = [s \in Sessions |-> "idle"]
  /\ run = [s \in Sessions |-> NoRun]
  /\ tx = NoTx

\* an empty database, on the first day of the model calendar
InitSalary ==
  /\ today = 0
  /\ hr_employee = {}
  /\ hr_salary_history = <<>>
  /\ hr_salary_log = <<>>
  /\ hr_salary_pushed = <<>>
  /\ hr_attendance_history = <<>>
  /\ hr_attendance = <<>>
  /\ out = NoOut
  /\ cache = cache_clear
  /\ pc = [s \in Sessions |-> "idle"]
  /\ run = [s \in Sessions |-> NoRun]
  /\ tx = NoTx

\* a database in which MaxEmp employees were hired on day 0 at salary 1
InitEdits ==
  /\ today = LastDay(MaxMonth)
  /\ hr_employee = 1..MaxEmp
  /\ hr_salary_history = [i \in 1..MaxEmp |->
        [employeeid |-> i, salary |-> 1, effective_from |-> 0, effective_to |-> NULL]]
  /\ hr_salary_log = <<>>
  /\ hr_salary_pushed = <<>>
  /\ hr_attendance_history = <<>>
  /\ hr_attendance = <<>>
  /\ out = NoOut
  /\ cache = cache_clear
  /\ pc = [s \in Sessions |-> "idle"]
  /\ run = [s \in Sessions |-> NoRun]
  /\ tx = NoTx

\* the same database with an open schedule row for employee 1
InitLedger ==
  /\ today = LastDay(MaxMonth)
  /\ hr_employee = 1..MaxEmp
  /\ hr_salary_history = [i \in 1..MaxEmp |->
        [employeeid |-> i, salary |-> 1, effective_from |-> 0, effective_to |-> NULL]]
  /\ hr_salary_log = <<>>
  /\ hr_salary_pushed = <<>>
  /\ hr_attendance_history =
        <<[employeeid |-> 1, clock_in |-> T(8, 0, 0), clock_out |-> T(22, 0, 0),
           effective_from |-> 0, effective_to |-> NULL]>>
  /\ hr_attendance = <<>>
  /\ out = NoOut
  /\ cache = cache_clear
  /\ pc = [s \in Sessions |-> "idle"]
  /\ run = [s \in Sessions |-> NoRun]
  /\ tx = NoTx

\* the rows the two adjustment forms can have written
LogRows ==
  [employeeid : 1..MaxEmp, txn_date : Dates, amount : 1..MaxAmount, txn_type : TxnTypes]

\* the database of InitEdits after up to MaxPosted adjustments were posted
InitPosted ==
  /\ today = LastDay(MaxMonth)
  /\ hr_employee = 1..MaxEmp
  /\ hr_salary_history = [i \in 1..MaxEmp |->
        [employeeid |-> i, salary |-> 1, effective_from |-> 0, effective_to |-> NULL]]
  /\ hr_salary_log \in UNION {[1..n -> LogRows] : n \in 0..MaxPosted}
  /\ hr_salary_pushed = <<>>
  /\ hr_attendance_history = <<>>
  /\ hr_attendance = <<>>
  /\ out = NoOut
  /\ cache = cache_clear
  /\ pc = [s \in Sessions |-> "idle"]
  /\ run = [s \in Sessions |-> NoRun]
  /\ tx = NoTx

\* the rows the schedule forms can leave in hr_attendance_history
SchedRows ==
  [employeeid : 1..MaxEmp, clock_in : ShiftTimes, clock_out : ShiftTimes,
   effective_from : Dates, effective_to : {NULL} \cup {<<d>> : d \in Dates}]

\* the punches: recorded on the day of their clock-in, still open or closed
\* an hour later; the clock-out is stored with its own date or with the
\* punch date, which for a punch that crosses midnight puts it before the
\* clock-in (no statement of these pages writes hr_attendance)
PunchRows ==
  {[employeeid |-> e, punch_date |-> d, clock_in |-> d * DaySecs + t,
    clock_out |-> IF open THEN NULL ELSE <<d * DaySecs + t + HourSecs>>] :
     e \in 1..MaxEmp, d \in Dates, t \in PunchTimes, open \in BOOLEAN}
  \cup
  {[employeeid |-> e, punch_date |-> d, clock_in |-> d * DaySecs + t,
    clock_out |-> <<(d * DaySecs) + ((t + HourSecs) % DaySecs)>>] :
     e \in 1..MaxEmp, d \in Dates, t \in PunchTimes}

\* the database of InitEdits with at most one schedule row and up to
\* MaxPunch punches
InitReconcile ==
  /\ today = LastDay(MaxMonth)
  /\ hr_employee = 1..MaxEmp
  /\ hr_salary_history = [i \in 1..MaxEmp |->
        [employeeid |-> i, salary |-> 1, effective_from |-> 0, effective_to |-> NULL]]
  /\ hr_salary_log = <<>>
  /\ hr_salary_pushed = <<>>
  /\ hr_attendance_history \in UNION {[1..n -> SchedRows] : n \in 0..1}
  /\ hr_attendance \in UNION {[1..n -> PunchRows] : n \in 0..MaxPunch}
  /\ out = NoOut
  /\ cache = cache_clear
  /\ pc = [s \in Sessions |-> "idle"]
  /\ run = [s \in Sessions |-> NoRun]
  /\ tx = NoTx

\* schedule rows of employee 1 with the shift 08:00 .. 22:00: the schedule
\* modal sets the window of a row to any dates (update_schedule_row), so every
\* table of such rows can be left in hr_attendance_history
RangeSchedRows ==
  {r \in SchedRows : r.employeeid = 1 /\ r.clock_in = T(8, 0, 0) /\ r.clock_out = T(22, 0, 0)}

\* punches at 08:00, still open or closed an hour later
RangePunchRows == {a \in PunchRows : time_of(a.clock_in) = T(8, 0, 0)}

\* hr_attendance has one row per employee and punch date (its natural key)
natural_key(att) ==
  \A i \in 1..Len(att), j \in 1..Len(att) :
    (att[i].employeeid = att[j].employeeid /\ att[i].punch_date = att[j].punch_date) => i = j

\* the database of InitEdits with up to MaxSched schedule rows of employee 1
\* and up to two punches, in any order of insertion
InitRange ==
  /\ today = LastDay(MaxMonth)
  /\ hr_employee = 1..MaxEmp
  /\ hr_salary_history = [i \in 1..MaxEmp |->
        [employeeid |-> i, salary |-> 1, effective_from |-> 0, effective_to |-> NULL]]
  /\ hr_salary_log = <<>>
  /\ hr_salary_pushed = <<>>
  /\ hr_attendance_history \in UNION {[1..n -> RangeSchedRows] : n \in 0..MaxSched}
  /\ hr_attendance \in {att \in UNION {[1..n -> RangePunchRows] : n \in 0..2} :
                           natural_key(att)}
  /\ out = NoOut
  /\ cache = cache_clear
  /\ pc = [s \in Sessions |-> "idle"]
  /\ run = [s \in Sessions |-> NoRun]
  /\ tx = NoTx

\* a run of a page is in progress
Busy == tx # NoTx \/ \E s \in Sessions : pc[s] # "idle"

\* a day passes
Tick ==
  /\ today + 1 \in Dates
  /\ today' = today + 1
  /\ UNCHANGED <<hr_attendance, out, hr_employee, hr_salary_history, hr_salary_log,
                 hr_salary_pushed, hr_attendance_history, cache, pc, run, tx>>

\* tab_add submit -> add_employee_with_salary(emp, base): one transaction
\* inserting the employee and its first salary row; no cache is cleared
add_employee_with_salary ==
  \E base \in 0..MaxSalary, employment_date \in Dates :
    /\ tx = NoTx
    /\ Cardinality(hr_employee) < MaxEmp
    /\ Len(hr_salary_history) < MaxHist
    /\ base > 0                       \* "Basic Salary" missing otherwise
    /\ employment_date <= today       \* date_input max_value=TODAY
    /\ LET eid == Cardinality(hr_employee) + 1 IN
         /\ hr_employee' = hr_employee \cup {eid}
         /\ hr_salary_history' = sql_new(hr_salary_history, eid, base, employment_date)
    /\ UNCHANGED <<hr_attendance, out, today, hr_salary_log, hr_salary_pushed, hr_attendance_history,
                   cache, pc, run, tx>>

\* tab_edit "Update Employee" -> update_employee(eid, **cols): an UPDATE of
\* hr_employee columns other than employeeid
update_employee ==
  \E eid \in hr_employee :
    /\ tx = NoTx
    /\ hr_employee' = (hr_employee \ {eid}) \cup {eid}
    /\ UNCHANGED <<hr_attendance, out, today, hr_salary_history, hr_salary_log, hr_salary_pushed,
                   hr_attendance_history, cache, pc, run, tx>>

\* a bug: only a non-positive salary is refused
raise_rejected_nonpositive(new_sal, cur) == new_sal <= 0

\* tab_raise "Save raise / cut": st.error when new_sal <= 0, st.warning when
\* new_sal == cur_sal; nothing is saved in either case
raise_rejected(new_sal, cur) == new_sal <= 0 \/ new_sal = cur

\* tab_raise "Save raise / cut": validation, then close_current_and_insert_raise
\* up to and including its UPDATE; a refused save goes on to tab_push, which
\* fetches the month pm its date input shows
tab_raise_save ==
  \E emp_id \in hr_employee, new_sal \in 0..MaxSalary :
    \E cur \in cur_sal(emp_id) :
      /\ tx = NoTx
      /\ \/ /\ raise_rejected(new_sal, cur)
            /\ \E pm \in Months :
                 \E df \in cached(cache, hr_employee, hr_salary_history, hr_salary_log, hr_attendance, pm) :
                   cache' = [cache EXCEPT ![pm] = <<df>>]
            /\ UNCHANGED <<hr_salary_history, tx>>
         \/ /\ ~raise_rejected(new_sal, cur)
            /\ Len(hr_salary_history) < MaxHist
            /\ \E eff_month \in eff_months :
                 LET eff_first  == FirstDay(eff_month)
                     close_date == eff_first - 1
                     staged     == sql_close(hr_salary_history, emp_id, close_date)
                 IN /\ tx' = [kind |-> "raise", eid |-> emp_id, sal |-> new_sal,
                              eff |-> eff_first, table |-> staged]
                    /\ hr_salary_history' = begin_visible(hr_salary_history, staged)
            /\ cache' = cache
      /\ UNCHANGED <<hr_attendance, out, today, hr_employee, hr_salary_log, hr_salary_pushed,
                     hr_attendance_history, pc, run>>

\* close_current_and_insert_raise: the INSERT and the commit on leaving the
\* block; then st.cache_data.clear() and st.rerun(), whose tab_push fetches
\* the month pm its date input shows
close_current_and_insert_raise_commit ==
  \E pm \in Months :
    /\ tx.kind = "raise"
    /\ hr_salary_history' = sql_new(tx.table, tx.eid, tx.sal, tx.eff)
    /\ tx' = NoTx
    /\ LET c == st_cache_data_clear(cache) IN
         \E df \in cached(c, hr_employee, hr_salary_history', hr_salary_log, hr_attendance, pm) :
           cache' = [c EXCEPT ![pm] = <<df>>]
    /\ UNCHANGED <<hr_attendance, out, today, hr_employee, hr_salary_log, hr_salary_pushed,
                   hr_attendance_history, pc, run>>

\* close_current_and_insert_raise: an exception after the UPDATE leaves the
\* block by rollback
close_current_and_insert_raise_fail ==
  /\ tx.kind = "raise"
  /\ tx' = NoTx
  /\ hr_salary_history' = rollback(hr_salary_history, tx.table)
  /\ UNCHANGED <<hr_attendance, out, today, hr_employee, hr_salary_log, hr_salary_pushed,
                 hr_attendance_history, cache, pc, run>>

\* add_txn / add_adjustment: INSERT INTO hr_salary_log
add_txn(log, eid, dt, amt, kind) ==
  Append(log, [employeeid |-> eid, txn_date |-> dt, amount |-> amt, txn_type |-> kind])

\* a bug: the inline form also saves an amount of 0
tab_sum_accepts_zero(amt) == amt >= 0

\* tab_sum inline form: "if sv.form_submit_button("Save") and amt > 0"
tab_sum_accepts(amt) == amt > 0

\* a bug: the form only refuses negative amounts
amount_negative(amount) == amount < 0

\* Add adjustment form: "if amount <= 0: st.error(...)"
amount_rejected(amount) == amount <= 0

\* tab_sum inline adjustment form "Save": add_txn when amt > 0, then
\* st.cache_data.clear() and st.rerun(); with amt = 0 the run goes on to
\* tab_push, which fetches the month pm its date input shows
tab_sum_save ==
  \E amt \in 0..MaxAmount, pm \in Months :
    /\ tx = NoTx
    /\ hr_employee # {}
    /\ \/ /\ tab_sum_accepts(amt)
          /\ Len(hr_salary_log) < MaxLog
          /\ \E eid \in hr_employee, dt \in Dates, kind \in TxnTypes :
               hr_salary_log' = add_txn(hr_salary_log, eid, dt, amt, kind)
          /\ LET c == st_cache_data_clear(cache) IN
               \E df \in cached(c, hr_employee, hr_salary_history, hr_salary_log', hr_attendance, pm) :
                 cache' = [c EXCEPT ![pm] = <<df>>]
       \/ /\ ~tab_sum_accepts(amt)
          /\ hr_salary_log' = hr_salary_log
          /\ \E df \in cached(cache, hr_employee, hr_salary_history, hr_salary_log, hr_attendance, pm) :
               cache' = [cache EXCEPT ![pm] = <<df>>]
    /\ UNCHANGED <<hr_attendance, out, today, hr_employee, hr_salary_history, hr_salary_pushed,
                   hr_attendance_history, pc, run, tx>>

\* Monthly Payroll Review "Add adjustment" form: st.error when amount <= 0,
\* else add_adjustment, then st.cache_data.clear()
add_adjustment ==
  \E amount \in 0..MaxAmount :
    /\ tx = NoTx
    /\ hr_employee # {}
    /\ \/ /\ amount_rejected(amount)
          /\ UNCHANGED <<hr_salary_log, cache>>
       \/ /\ ~amount_rejected(amount)
          /\ Len(hr_salary_log) < MaxLog
          /\ \E emp_id \in hr_employee, date_ \in Dates, txn_type \in TxnTypes :
               hr_salary_log' = add_txn(hr_salary_log, emp_id, date_, amount, txn_type)
          /\ cache' = st_cache_data_clear(cache)
    /\ UNCHANGED <<hr_attendance, out, today, hr_employee, hr_salary_history, hr_salary_pushed,
                   hr_attendance_history, pc, run, tx>>

\* a run of the salary page that presses nothing: tab_push checks the month
\* and fetches (and caches) its summary; the page stops before tab_push when
\* there is no employee
tab_push_view ==
  \E m \in Months :
    /\ hr_employee # {}
    /\ \E df \in cached(cache, hr_employee, hr_salary_history, hr_salary_log, hr_attendance, m) :
         cache' = [cache EXCEPT ![m] = <<df>>]
    /\ UNCHANGED <<hr_attendance, out, today, hr_employee, hr_salary_history, hr_salary_log,
                   hr_salary_pushed, hr_attendance_history, pc, run, tx>>

\* a run of the Monthly Payroll Review page that submits nothing: it shows
\* fetch_month_summary of the month picked (nothing writes the tables in the
\* specification that has this action, so a cached frame is the computed one)
payroll_review ==
  \E m \in Months, basicsalary \in [hr_employee -> BasicSalaries] :
    /\ out' = [page |-> "review", month |-> m,
               df |-> fetch_month_summary(hr_employee, basicsalary, hr_salary_log, m)]
    /\ UNCHANGED <<today, hr_employee, hr_salary_history, hr_salary_log, hr_salary_pushed,
                   hr_attendance_history, hr_attendance, cache, pc, run, tx>>

\* Daily Grid: fetch_day(dsel) of a date up to today, at time-of-day t; the
\* cards compare r["hours"] >= r["shift_hours"], which for a missing
\* shift_hours raises a TypeError when the frame holds it as None and is
\* False when the frame holds it as NaN
tab_grid ==
  \E dsel \in Dates, t \in ClockTimes :
    /\ dsel <= today
    /\ recorded_by(hr_attendance, today * DaySecs + t)
    /\ LET now    == today * DaySecs + t
           day_df == fetch_day(hr_attendance_history, hr_attendance, dsel, now)
       IN \E raised \in (IF \E k \in 1..Len(day_df) : day_df[k].shift_hours = NULL
                          THEN BOOLEAN ELSE {FALSE}) :
            out' = [page |-> "day", day |-> dsel, now |-> now, df |-> day_df,
                    status |-> IF raised THEN "raised"
                               ELSE IF day_df = <<>> THEN "nothing" ELSE "shown"]
    /\ UNCHANGED <<today, hr_employee, hr_salary_history, hr_salary_log, hr_salary_pushed,
                   hr_attendance_history, hr_attendance, cache, pc, run, tx>>

\* Employee Log History: "Start must be <= End" (st.error and st.stop: the
\* run ends with nothing fetched), then fetch_range(eid, s, e), the \Delta
\* column and the three totals; an empty frame stops at "Nothing."
tab_log ==
  \E eid \in hr_employee, s \in Dates, e \in Dates, t \in ClockTimes :
    /\ recorded_by(hr_attendance, today * DaySecs + t)
    /\ LET now == today * DaySecs + t
           d   == fetch_range(hr_attendance_history, hr_attendance, eid, s, e, now)
       IN IF s > e
          THEN out' = [page |-> "range", eid |-> eid, s |-> s, e |-> e, now |-> now,
                       df |-> <<>>, status |-> "rejected", delta |-> <<>>,
                       totals |-> NULL]
          ELSE out' = [page |-> "range", eid |-> eid, s |-> s, e |-> e, now |-> now,
                       df |-> d,
                       status |-> IF d = <<>> THEN "nothing"
                                  ELSE IF delta_raises(d) THEN "raised" ELSE "shown",
                       delta |-> IF delta_raises(d) THEN <<>>
                                 ELSE [k \in 1..Len(d) |-> delta_col(d[k])],
                       totals |-> IF d = <<>> \/ delta_raises(d) THEN NULL
                                  ELSE <<log_totals(d)>>]
    /\ UNCHANGED <<today, hr_employee, hr_salary_history, hr_salary_log, hr_salary_pushed,
                   hr_attendance_history, hr_attendance, cache, pc, run, tx>>

\* the run in which "Push all to Finance (Finalize)" is pressed, up to the
\* button: the button is reached only in the not-yet-pushed branch
tab_push_click(s) ==
  \E m \in Months :
    /\ pc[s] = "idle"
    /\ hr_employee # {}
    /\ ~already_pushed(m)
    /\ \E df \in cached(cache, hr_employee, hr_salary_history, hr_salary_log, hr_attendance, m) :
         /\ cache' = [cache EXCEPT ![m] = <<df>>]
         /\ run' = [run EXCEPT ![s] = [month |-> m, df |-> df]]
    /\ pc' = [pc EXCEPT ![s] = "checked"]
    /\ UNCHANGED <<hr_attendance, out, today, hr_employee, hr_salary_history, hr_salary_log,
                   hr_salary_pushed, hr_attendance_history, tx>>

\* the finalize loop: engine.begin() and one INSERT per data-frame row
finalize_insert(s) ==
  /\ \/ pc[s] = "checked" /\ tx = NoTx
     \/ pc[s] = "inserting"
  /\ LET done  == IF tx = NoTx THEN <<>> ELSE tx.rows
         order == df_order(DOMAIN run[s].df)
     IN /\ Len(done) < Len(order)
        /\ LET eid    == order[Len(done) + 1]
               rows   == Append(done, pushed_row(eid, run[s].month, run[s].df[eid]))
               staged == ledger_insert(hr_salary_pushed, rows)
           IN /\ tx' = [kind |-> "finalize", month |-> run[s].month,
                        emps |-> DOMAIN run[s].df, rows |-> rows, table |-> staged]
              /\ hr_salary_pushed' = begin_visible(hr_salary_pushed, staged)
  /\ pc' = [pc EXCEPT ![s] = "inserting"]
  /\ UNCHANGED <<hr_attendance, out, today, hr_employee, hr_salary_history, hr_salary_log,
                 hr_attendance_history, cache, run>>

\* the loop has finished: commit, st.cache_data.clear(), st.rerun()
finalize_commit(s) ==
  /\ pc[s] = "inserting"
  /\ Len(tx.rows) = Cardinality(DOMAIN run[s].df)
  /\ hr_salary_pushed' = tx.table
  /\ tx' = NoTx
  /\ pc' = [pc EXCEPT ![s] = "idle"]
  /\ run' = [run EXCEPT ![s] = NoRun]
  /\ LET c == st_cache_data_clear(cache) IN
       \E df \in cached(c, hr_employee, hr_salary_history, hr_salary_log, hr_attendance, run[s].month) :
         cache' = [c EXCEPT ![run[s].month] = <<df>>]
  /\ UNCHANGED <<hr_attendance, out, today, hr_employee, hr_salary_history, hr_salary_log,
                 hr_attendance_history>>

\* an INSERT of the loop raises: the block rolls back, the run ends
finalize_fail(s) ==
  /\ pc[s] = "inserting"
  /\ hr_salary_pushed' = rollback(hr_salary_pushed, tx.table)
  /\ tx' = NoTx
  /\ pc' = [pc EXCEPT ![s] = "idle"]
  /\ run' = [run EXCEPT ![s] = NoRun]
  /\ UNCHANGED <<hr_attendance, out, today, hr_employee, hr_salary_history, hr_salary_log,
                 hr_attendance_history, cache>>

\* schedule modal "Save" -> update_schedule_row(rid, {...}): the shift and
\* the window are whatever the time and date inputs hold; 2100-01-01 stands
\* for "open"
update_schedule_row ==
  \E rid \in 1..Len(hr_attendance_history), cin \in ShiftTimes, cout \in ShiftTimes,
     efff \in Dates, efft_in \in Dates \cup {Date2100} :
    /\ tx = NoTx
    /\ LET efft == IF efft_in = Date2100 THEN NULL ELSE <<efft_in>>
       IN hr_attendance_history' =
            sched_update(hr_attendance_history, rid, cin, cout, efff, efft)
    /\ UNCHANGED <<hr_attendance, out, today, hr_employee, hr_salary_history, hr_salary_log,
                   hr_salary_pushed, cache, pc, run, tx>>

\* close_current_and_add(eid, payload): the UPDATE closes at
\* payload["effective_from"] - 1 day, the INSERT starts at payload["eff"]
close_current_and_add ==
  \E eid \in hr_employee, cin \in ShiftTimes, cout \in ShiftTimes,
     effective_from \in Dates, eff \in Dates :
    /\ tx = NoTx
    /\ Len(hr_attendance_history) < MaxSched
    /\ LET close_to == effective_from - 1
       IN hr_attendance_history' =
            Append(sched_close(hr_attendance_history, eid, close_to),
                   [employeeid |-> eid, clock_in |-> cin, clock_out |-> cout,
                    effective_from |-> eff, effective_to |-> NULL])
    /\ UNCHANGED <<hr_attendance, out, today, hr_employee, hr_salary_history, hr_salary_log,
                   hr_salary_pushed, cache, pc, run, tx>>

\* --------------------------------------------------------- specifications
\* The payroll month of one operator, from hiring to the finalize: a page
\* run, once begun, ends before the next one begins.
Next ==
  \/ ~Busy /\ add_employee_with_salary
  \/ ~Busy /\ tab_sum_save
  \/ ~Busy /\ add_adjustment
  \/ ~Busy /\ tab_push_view
  \/ ~Busy /\ tab_push_click(1)
  \/ finalize_insert(1)
  \/ finalize_commit(1)
  \/ finalize_fail(1)

Spec == Init /\ [][Next]_vars

\* The salary timeline alone, with the calendar advancing.
NextSalary ==
  \/ Tick
  \/ add_employee_with_salary
  \/ tab_raise_save
  \/ close_current_and_insert_raise_commit
  \/ close_current_and_insert_raise_fail

SpecSalary == InitSalary /\ [][NextSalary]_vars

\* Several operator sessions on the push tab, their runs interleaved.
NextRace ==
  \/ add_employee_with_salary
  \/ tab_push_view
  \/ \E s \in Sessions : tab_push_click(s)
  \/ \E s \in Sessions : finalize_insert(s)
  \/ \E s \in Sessions : finalize_commit(s)
  \/ \E s \in Sessions : finalize_fail(s)

SpecRace == Init /\ [][NextRace]_vars

\* The schedule write operations on a database that has its employees.
NextSchedule ==
  \/ update_schedule_row
  \/ close_current_and_add

SpecSchedule == InitEdits /\ [][NextSchedule]_vars

\* Every payroll operation that can follow a hire, on a database that has
\* its employees and one schedule row: one operator.
NextLedger ==
  \/ ~Busy /\ update_employee
  \/ ~Busy /\ tab_raise_save
  \/ close_current_and_insert_raise_commit
  \/ close_current_and_insert_raise_fail
  \/ ~Busy /\ tab_sum_save
  \/ ~Busy /\ add_adjustment
  \/ ~Busy /\ tab_push_click(1)
  \/ finalize_insert(1)
  \/ finalize_commit(1)
  \/ finalize_fail(1)

SpecLedger == InitLedger /\ [][NextLedger]_vars

\* The summary and what feeds it, on a database that has its employees:
\* raises, adjustments from both forms, and runs of the salary page.
NextSummary ==
  \/ tab_raise_save
  \/ close_current_and_insert_raise_commit
  \/ close_current_and_insert_raise_fail
  \/ tx = NoTx /\ tab_sum_save
  \/ tx = NoTx /\ add_adjustment
  \/ tx = NoTx /\ tab_push_view

SpecSummary == InitEdits /\ [][NextSummary]_vars

\* The two summary pages on a database that has adjustments: the runs that
\* compute and show a month's summary.
NextPosted ==
  \/ tab_push_view
  \/ payroll_review

SpecPosted == InitPosted /\ [][NextPosted]_vars

\* The two read-only attendance pages on a database that has punches and
\* a schedule.
NextReconcile ==
  \/ tab_grid
  \/ tab_log

SpecReconcile == InitReconcile /\ [][NextReconcile]_vars

\* The Employee Log History on a database that has several punches and
\* several schedule rows.
NextRange ==
  \/ tab_log

SpecRange == InitRange /\ [][NextRange]_vars

\* ------------------------------------------------------------- properties
\* the window [effective_from, effective_to-or-open] of a row holds day d
Covers(r, d) ==
  /\ r.effective_from <= d
  /\ (r.effective_to = NULL \/ d <= r.effective_to[1])

\* two windows share a day: the later of the two starts lies in both
Overlap(a, b) ==
  LET d == IF a.effective_from >= b.effective_from
           THEN a.effective_from ELSE b.effective_from
  IN Covers(a, d) /\ Covers(b, d)

OpenRows(table, eid) ==
  {i \in 1..Len(table) : table[i].employeeid = eid /\ table[i].effective_to = NULL}

LedgerRows(pushed, eid, m) ==
  {i \in 1..Len(pushed) : pushed[i].employeeid = eid /\ pushed[i].month = m}

MonthRows(pushed, m) == {i \in 1..Len(pushed) : pushed[i].month = m}

\* C1: after any sequence of hires and raises no two salary-history rows of
\* one employee have overlapping windows.
C1_NoOverlap ==
  \A i, j \in 1..Len(hr_salary_history) :
    (i # j /\ hr_salary_history[i].employeeid = hr_salary_history[j].employeeid)
      => ~Overlap(hr_salary_history[i], hr_salary_history[j])

\* C2: after any sequence of hires and raises every employee has at most one
\* salary-history row with effective_to = null.
C2_AtMostOneOpen ==
  \A e \in 1..MaxEmp : Cardinality(OpenRows(hr_salary_history, e)) <= 1

\* C2 witness: a raise was committed: an employee has a closed row and an open one
C2_Witness ==
  /\ tx = NoTx
  /\ \E i, j \in 1..Len(hr_salary_history) :
       /\ hr_salary_history[i].employeeid = hr_salary_history[j].employeeid
       /\ hr_salary_history[i].effective_to # NULL
       /\ hr_salary_history[j].effective_to = NULL

\* C3: after any sequence of schedule writes every employee has at most one
\* open schedule row and no two of its closed rows overlap.
C3_ScheduleWindows ==
  /\ \A e \in 1..MaxEmp : Cardinality(OpenRows(hr_attendance_history, e)) <= 1
  /\ \A i, j \in 1..Len(hr_attendance_history) :
       (/\ i # j
        /\ hr_attendance_history[i].employeeid = hr_attendance_history[j].employeeid
        /\ hr_attendance_history[i].effective_to # NULL
        /\ hr_attendance_history[j].effective_to # NULL)
         => ~Overlap(hr_attendance_history[i], hr_attendance_history[j])

\* a month that has ledger rows keeps exactly those rows
MonthFrozen ==
  \A m \in Months :
    MonthRows(hr_salary_pushed, m) # {} =>
      /\ MonthRows(hr_salary_pushed', m) = MonthRows(hr_salary_pushed, m)
      /\ \A i \in MonthRows(hr_salary_pushed, m) : hr_salary_pushed'[i] = hr_salary_pushed[i]

\* C4: finalizing a month twice in sequence leaves one set of ledger rows for
\* it: at most one row per employee and month, and once the month has rows a
\* later finalize neither adds a row for it nor changes one.
C4_FinalizeOnce ==
  /\ [](\A e \in 1..MaxEmp, m \in Months : Cardinality(LedgerRows(hr_salary_pushed, e, m)) <= 1)
  /\ [][MonthFrozen]_vars

\* C4 witness: a month is finalized and the push tab was run on it again
\* after a later write: its cached summary differs from the ledger row
C4_Witness ==
  \E m \in Months, e \in hr_employee :
    /\ tx = NoTx
    /\ LedgerRows(hr_salary_pushed, e, m) # {}
    /\ cache[m] # <<>>
    /\ e \in DOMAIN cache[m][1]
    /\ \A i \in LedgerRows(hr_salary_pushed, e, m) :
         hr_salary_pushed[i] # pushed_row(e, m, cache[m][1][e])

\* C5: with concurrent finalize attempts for one month, never do both insert
\* ledger rows: no employee gets two rows for the month.
C5_SecondCallerRefuses ==
  \A i, j \in 1..Len(hr_salary_pushed) :
    (/\ hr_salary_pushed[i].employeeid = hr_salary_pushed[j].employeeid
     /\ hr_salary_pushed[i].month = hr_salary_pushed[j].month) => i = j

\* the adjustment-log rows of an employee dated inside a month
AdjustmentsOf(log, eid, m) ==
  SelectSeq(log, LAMBDA r : r.employeeid = eid /\ MonthOf(r.txn_date) = m)

\* C6: once a ledger row exists for (employee, month) the adjustment log of
\* that employee and month never changes again.
C6_NoAdjustmentAfterFinalize ==
  [][\A e \in 1..MaxEmp, m \in Months :
       LedgerRows(hr_salary_pushed, e, m) # {} =>
         AdjustmentsOf(hr_salary_log', e, m) = AdjustmentsOf(hr_salary_log, e, m)]_vars

\* C7: a ledger row, once written, stays in the ledger unchanged: no step
\* updates or deletes it.
C7_LedgerImmutable ==
  [][/\ Len(hr_salary_pushed') >= Len(hr_salary_pushed)
     /\ \A i \in 1..Len(hr_salary_pushed) : hr_salary_pushed'[i] = hr_salary_pushed[i]]_vars

\* C7 witness: a ledger row outlived a later write: no summary of the
\* tables as they are now would give it
C7_Witness ==
  /\ tx = NoTx
  /\ \E i \in 1..Len(hr_salary_pushed) :
       \A df \in fetch_month(hr_employee, hr_salary_history, hr_salary_log, hr_attendance,
                             hr_salary_pushed[i].month) :
         hr_salary_pushed[i] #
           pushed_row(hr_salary_pushed[i].employeeid, hr_salary_pushed[i].month,
                      df[hr_salary_pushed[i].employeeid])

\* C8: finalize is all-or-nothing: a step that changes the ledger appends one
\* row for every employee of the summary being finalized, and nothing else;
\* a failure part-way leaves the ledger as it was.
C8_AllOrNothing ==
  [][hr_salary_pushed' # hr_salary_pushed =>
       /\ tx.kind = "finalize"
       /\ Len(hr_salary_pushed') = Len(hr_salary_pushed) + Cardinality(tx.emps)
       /\ SubSeq(hr_salary_pushed', 1, Len(hr_salary_pushed)) = hr_salary_pushed
       /\ \A e \in tx.emps :
            \E i \in (Len(hr_salary_pushed) + 1)..Len(hr_salary_pushed') :
              hr_salary_pushed'[i].employeeid = e /\ hr_salary_pushed'[i].month = tx.month]_vars

\* C8 witness: a finalize is part-way through its inserts and none is visible
C8_Witness ==
  /\ tx.kind = "finalize"
  /\ Len(tx.rows) > 0
  /\ Len(tx.rows) < Cardinality(tx.emps)
  /\ MonthRows(hr_salary_pushed, tx.month) = {}

\* C9: raise_or_cut is atomic: in no state, also after a failure between the
\* UPDATE and the INSERT, is an employee's open row closed with no successor.
C9_NoCloseWithoutSuccessor ==
  \A e \in hr_employee : OpenRows(hr_salary_history, e) # {}

\* C9 witness: the UPDATE of a raise has closed the open row inside its
\* transaction and the INSERT has not run
C9_Witness ==
  /\ tx.kind = "raise"
  /\ tx.table # hr_salary_history
  /\ OpenRows(tx.table, tx.eid) = {}

\* C10: when a finalize succeeds the ledger holds, for every employee there
\* is at that moment, one row for the month with the summary values computed
\* from the tables as they are at that moment.
C10_SnapshotIsCurrent ==
  [][(tx.kind = "finalize" /\ tx'.kind = "none" /\ hr_salary_pushed' # hr_salary_pushed) =>
       \A e \in hr_employee :
         /\ Cardinality(LedgerRows(hr_salary_pushed', e, tx.month)) = 1
         /\ \A i \in LedgerRows(hr_salary_pushed', e, tx.month) :
              \E df \in fetch_month(hr_employee, hr_salary_history, hr_salary_log, hr_attendance, tx.month) :
                hr_salary_pushed'[i] = pushed_row(e, tx.month, df[e])]_vars

\* C11: an adjustment with amount <= 0 is refused by both forms: a step that
\* changes the adjustment log appends exactly one row, with amount > 0, so
\* every row of the log has amount > 0.
C11_RejectsNonPositive ==
  /\ [](\A i \in 1..Len(hr_salary_log) : hr_salary_log[i].amount > 0)
  /\ [][hr_salary_log' # hr_salary_log =>
         /\ Len(hr_salary_log') = Len(hr_salary_log) + 1
         /\ SubSeq(hr_salary_log', 1, Len(hr_salary_log)) = hr_salary_log
         /\ hr_salary_log'[Len(hr_salary_log')].amount > 0]_vars

\* C11 witness: the Add adjustment form accepted an amount > 0 (the log has
\* the row, the cache was cleared and nothing has been fetched since)
C11_Witness ==
  /\ tx = NoTx
  /\ \E i \in 1..Len(hr_salary_log) : hr_salary_log[i].amount > 0
  /\ \A m \in Months : cache[m] = <<>>

\* C12: right after an accepted adjustment, a summary call for the month of
\* its date returns what the query gives on the tables as they now are,
\* whatever was cached before.
C12_SummaryFreshAfterPost ==
  [][hr_salary_log' # hr_salary_log =>
       LET m == MonthOf(hr_salary_log'[Len(hr_salary_log')].txn_date) IN
         \A df \in cached(cache', hr_employee', hr_salary_history', hr_salary_log', hr_attendance, m) :
           df \in fetch_month(hr_employee', hr_salary_history', hr_salary_log', hr_attendance, m)]_vars

\* C12 witness: an adjustment was accepted and the summary of its month,
\* fetched by the run that followed, holds its amount
C12_Witness ==
  \E i \in 1..Len(hr_salary_log) :
    LET r == hr_salary_log[i] IN
      /\ cache[MonthOf(r.txn_date)] # <<>>
      /\ cache[MonthOf(r.txn_date)][1][r.employeeid][r.txn_type] = r.amount

\* C13: the salary history is written by a raise only when the new amount
\* is > 0 and differs from the salary of the employee's open row.
C13_RaiseValidated ==
  [][(hr_salary_history' # hr_salary_history /\ hr_employee' = hr_employee) =>
       /\ tx.kind = "raise"
       /\ tx.sal > 0
       /\ \A i \in OpenRows(hr_salary_history, tx.eid) :
            hr_salary_history[i].salary # tx.sal]_vars

\* C13 witness: a raise passed validation with an amount above the salary
\* of the open row
C13_Witness ==
  /\ tx.kind = "raise"
  /\ \E i \in OpenRows(hr_salary_history, tx.eid) : hr_salary_history[i].salary < tx.sal

\* C14: a committed raise effective month M on an employee whose open row
\* started before M closes that row at (first day of M) - 1, appends one row
\* {amount, first day of M, null} and changes nothing else.
C14_RaiseRows ==
  [][(/\ tx.kind = "raise"
      /\ hr_salary_history' # hr_salary_history
      /\ \E i \in OpenRows(hr_salary_history, tx.eid) :
           hr_salary_history[i].effective_from < tx.eff) =>
       /\ tx.eff = FirstDay(MonthOf(tx.eff))
       /\ Len(hr_salary_history') = Len(hr_salary_history) + 1
       /\ hr_salary_history'[Len(hr_salary_history')] =
            [employeeid |-> tx.eid, salary |-> tx.sal,
             effective_from |-> tx.eff, effective_to |-> NULL]
       /\ \A i \in 1..Len(hr_salary_history) :
            hr_salary_history'[i] =
              IF i \in OpenRows(hr_salary_history, tx.eid)
              THEN [hr_salary_history[i] EXCEPT !.effective_to = <<tx.eff - 1>>]
              ELSE hr_salary_history[i]]_vars

\* C14 witness: an employee has a row closed the day before its successor
\* starts, while another employee's row is still open
C14_Witness ==
  /\ tx = NoTx
  /\ \E i, j, k \in 1..Len(hr_salary_history) :
       /\ hr_salary_history[i].employeeid = hr_salary_history[j].employeeid
       /\ hr_salary_history[i].effective_from < hr_salary_history[j].effective_from
       /\ hr_salary_history[i].effective_to = <<hr_salary_history[j].effective_from - 1>>
       /\ hr_salary_history[j].effective_to = NULL
       /\ hr_salary_history[k].employeeid # hr_salary_history[i].employeeid
       /\ hr_salary_history[k].effective_to = NULL

\* the salary-history rows of an employee whose window holds day d
CoveringRows(hist, eid, d) ==
  {i \in 1..Len(hist) : hist[i].employeeid = eid /\ Covers(hist[i], d)}

\* C15: in every summary the base of an employee is the salary of a row
\* whose window holds the month's first day, 0 when there is none; and when
\* a raise effective month M is committed, the summaries of M and later
\* months show the new amount and those of earlier months show what they
\* showed before.
C15_BaseResolution ==
  /\ [](\A m \in Months :
         \A df \in fetch_month(hr_employee, hr_salary_history, hr_salary_log, hr_attendance, m) :
           \A e \in hr_employee :
             LET cov == CoveringRows(hr_salary_history, e, FirstDay(m)) IN
               IF cov = {} THEN df[e].base = 0
               ELSE \E i \in cov : df[e].base = hr_salary_history[i].salary)
  /\ [][(tx.kind = "raise" /\ hr_salary_history' # hr_salary_history) =>
         \A m \in Months :
           \A df \in fetch_month(hr_employee, hr_salary_history', hr_salary_log, hr_attendance, m) :
             IF m >= MonthOf(tx.eff)
             THEN df[tx.eid].base = tx.sal
             ELSE \E old \in fetch_month(hr_employee, hr_salary_history, hr_salary_log, hr_attendance, m) :
                    df[tx.eid].base = old[tx.eid].base]_vars

\* the sum of the amounts of the log rows with index in S
RECURSIVE SumAmounts(_, _)
SumAmounts(log, S) ==
  IF S = {} THEN 0
  ELSE LET i == CHOOSE x \in S : TRUE IN log[i].amount + SumAmounts(log, S \ {i})

\* the rows of an employee, of one type, dated from the first to the last
\* day of month m
TypedInMonth(log, eid, kind, m) ==
  {i \in 1..Len(log) :
     /\ log[i].employeeid = eid
     /\ log[i].txn_type = kind
     /\ FirstDay(m) <= log[i].txn_date
     /\ log[i].txn_date <= LastDay(m)}

\* C16: in a summary of month m the bonus, extra and fine of an employee are
\* each the sum of the amounts of that employee's adjustments of that type
\* dated from the first to the last day of m, 0 when there are none.
C16_AdjustmentSums ==
  \A m \in Months :
    cache[m] # <<>> =>
      \A e \in DOMAIN cache[m][1], kind \in TxnTypes :
        cache[m][1][e][kind] = SumAmounts(hr_salary_log, TypedInMonth(hr_salary_log, e, kind, m))

\* C16 witness: a summary was fetched in which an employee's bonus is the
\* sum of two adjustments while the same employee has a fine in the log
C16_Witness ==
  \E m \in Months :
    /\ cache[m] # <<>>
    /\ \E e \in DOMAIN cache[m][1] :
         /\ Cardinality(TypedInMonth(hr_salary_log, e, "bonus", m)) = 2
         /\ cache[m][1][e].bonus = 2 * MaxAmount
         /\ cache[m][1][e].fine = 0

C18_OneScheduleRowPerPunch ==
  \A a \in PunchRows :
    /\ Cardinality(schedule_join(hr_attendance_history, a.employeeid, a.punch_date)) <= 1
    /\ \A h \in schedule_join(hr_attendance_history, a.employeeid, a.punch_date) :
         Covers(hr_attendance_history[h], a.punch_date)
    /\ Len(fetch_day(hr_attendance_history, <<a>>, a.punch_date, a.clock_in)) = 1
    /\ Len(fetch_range(hr_attendance_history, <<a>>, a.employeeid,
                       a.punch_date, a.punch_date, a.clock_in)) = 1

\* the length in seconds of the shift T_in .. T_out as the spec states it:
\* T_out - T_in when T_out >= T_in, T_out + 24h - T_in otherwise
ShiftSeconds(T_in, T_out) ==
  IF T_out >= T_in THEN T_out - T_in ELSE T_out + 24 * 60 * 60 - T_in

\* the rows of the frame shown by the last attendance run
ShownRows == IF out.page \in {"day", "range"} THEN 1..Len(out.df) ELSE {}

\* the schedule row a shown row was joined to, if any
JoinedTo(r) ==
  IF r.expected_in = NULL THEN {}
  ELSE schedule_join(hr_attendance_history, r.employeeid, r.punch_date)

\* C19 as stated: the expected shift hours of every reconciled row are the
\* length of the shift and strictly positive.
C19_ShiftHoursPositive ==
  \A k \in ShownRows : \A h \in JoinedTo(out.df[k]) :
    LET hrs == out.df[k].shift_hours[1]
        sec == ShiftSeconds(hr_attendance_history[h].clock_in,
                            hr_attendance_history[h].clock_out)
    IN /\ hrs.num * 60 * 60 = sec * hrs.den
       /\ hrs.num > 0

\* C19 as amended: the expected shift hours of every reconciled row are
\* T_out - T_in when T_out >= T_in and T_out + 24h - T_in otherwise; they are
\* less than 24 hours, never negative, and strictly positive unless
\* T_out = T_in, when they are 0; 22:00 to 06:00 gives exactly 8 hours.
C19_ShiftHours ==
  \A k \in ShownRows : \A h \in JoinedTo(out.df[k]) :
    LET hrs   == out.df[k].shift_hours[1]
        T_in  == hr_attendance_history[h].clock_in
        T_out == hr_attendance_history[h].clock_out
    IN /\ hrs.num * 60 * 60 = ShiftSeconds(T_in, T_out) * hrs.den
       /\ hrs.den > 0
       /\ hrs.num >= 0
       /\ hrs.num < 24 * hrs.den
       /\ (hrs.num = 0) <=> (T_out = T_in)
       /\ (T_in = T(22, 0, 0) /\ T_out = T(6, 0, 0)) => hrs.num = 8 * hrs.den

\* C19 witness: a reconciled row of the overnight shift 22:00 .. 06:00
C19_Witness ==
  \E k \in ShownRows : \E h \in JoinedTo(out.df[k]) :
    /\ hr_attendance_history[h].clock_in = T(22, 0, 0)
    /\ hr_attendance_history[h].clock_out = T(6, 0, 0)
    /\ out.df[k].shift_hours[1].num = 8 * out.df[k].shift_hours[1].den

\* C20: the late flag of every reconciled row is true exactly when the time
\* of day of the clock-in is after expected clock-in + 5 minutes, and false
\* when no schedule resolved.
C20_LateFlag ==
  \A k \in ShownRows :
    LET r == out.df[k] IN
      r.late <=> (/\ r.expected_in # NULL
                  /\ (r.clock_in % (24 * 60 * 60)) > r.expected_in[1] + 5 * 60)

\* C21: the worked seconds of every reconciled row are clock_out - clock_in
\* when the punch has a clock-out and now - clock_in when it has none, and a
\* punch whose clock-out is before its clock-in gets 24 hours added, so that
\* a closed punch always has a positive worked duration.
C21_WorkedSeconds ==
  \A k \in ShownRows :
    LET r == out.df[k] IN
      /\ r.clock_out = NULL => r.secs = out.now - r.clock_in
      /\ r.clock_out # NULL =>
           /\ r.secs = IF r.clock_out[1] >= r.clock_in
                       THEN r.clock_out[1] - r.clock_in
                       ELSE r.clock_out[1] + 24 * 60 * 60 - r.clock_in
           /\ r.secs > 0

\* C22: when the range shown by the Employee Log History is a whole month,
\* the worked hours of the monthly summary for that employee and month are
\* the sum of the worked hours of the rows shown, also when a punch of the
\* month has no clock-out.
C22_WorkedHoursAgree ==
  \A m \in Months :
    (/\ out.page = "range"
     /\ out.status # "rejected"
     /\ out.s = month_bounds(FirstDay(m))[1]
     /\ out.e = month_bounds(FirstDay(m))[2]) =>
      \A df \in fetch_month(hr_employee, hr_salary_history, hr_salary_log, hr_attendance, m) :
        df[out.eid].worked.num * HourSecs = hours_sum(out.df) * df[out.eid].worked.den

\* the step is a second run of the Employee Log History with the employee,
\* start and end of the run before it
SameRangeCall ==
  /\ out.page = "range"
  /\ out'.page = "range"
  /\ out'.eid = out.eid
  /\ out'.s = out.s
  /\ out'.e = out.e

\* a reconciled row without its worked seconds and hours
SansWorked(r) == [r EXCEPT !.secs = 0, !.hours = [num |-> 0, den |-> 1]]

\* C23 as stated: a second call of reconcile_range with the same employee,
\* start and end and no write in between returns the rows and totals of the
\* first, whatever the punch table holds.
C23_RangeIdempotent ==
  [][SameRangeCall =>
       /\ out'.df = out.df
       /\ out'.totals = out.totals]_vars

\* C23 as amended: a run of reconcile_range writes no store, and a second
\* call with the same employee, start and end returns the same rows in the
\* same order, identical in every field but the worked seconds and hours of
\* the punches without a clock-out, which follow the time of the call; when
\* every punch of the range has a clock-out the rows, the delta column and the
\* totals are identical.
C23_RangeRepeatable ==
  /\ [][out'.page = "range" =>
          UNCHANGED <<hr_employee, hr_attendance, hr_attendance_history,
                      hr_salary_history, hr_salary_log, hr_salary_pushed>>]_vars
  /\ [][SameRangeCall =>
          /\ Len(out'.df) = Len(out.df)
          /\ out'.status = out.status
          /\ \A k \in 1..Len(out.df) :
               /\ SansWorked(out'.df[k]) = SansWorked(out.df[k])
               /\ out.df[k].clock_out # NULL => out'.df[k] = out.df[k]
          /\ (\A k \in 1..Len(out.df) : out.df[k].clock_out # NULL) =>
               /\ out'.df = out.df
               /\ out'.delta = out.delta
               /\ out'.totals = out.totals]_vars

\* C23 witness: the later of two runs over a range that has a punch with a
\* clock-out, resolved against a schedule, so that rows, delta and totals
\* are shown
C23_Witness ==
  /\ out.page = "range"
  /\ out.status = "shown"
  /\ out.now = today * DaySecs + T(23, 59, 0)
  /\ out.totals # NULL
  /\ \E k \in 1..Len(out.df) : out.df[k].clock_out # NULL /\ out.df[k].secs > 0

\* the punch dates of employee eid from s to e
PunchDates(eid, s, e) ==
  {hr_attendance[i].punch_date : i \in {j \in 1..Len(hr_attendance) :
      /\ hr_attendance[j].employeeid = eid
      /\ s <= hr_attendance[j].punch_date
      /\ hr_attendance[j].punch_date <= e}}

\* C24: a run of reconcile_range with start > end is rejected and returns no
\* row; a run with start <= end returns exactly one row for each punch date
\* of the employee inside the range, in ascending order of date, and no row
\* of another employee or of a date outside the range.
C24_RangeRows ==
  out.page = "range" =>
    /\ (out.status = "rejected") <=> (out.s > out.e)
    /\ out.s > out.e => out.df = <<>>
    /\ ~(out.s > out.e) =>
         /\ Len(out.df) = Cardinality(PunchDates(out.eid, out.s, out.e))
         /\ \A k \in 1..Len(out.df) :
              /\ out.df[k].employeeid = out.eid
              /\ out.df[k].punch_date \in PunchDates(out.eid, out.s, out.e)
         /\ \A k \in 1..(Len(out.df) - 1) :
              out.df[k].punch_date < out.df[k + 1].punch_date

\* the expected seconds of the rows of d whose schedule resolved
RECURSIVE ResolvedShiftSecs(_)
ResolvedShiftSecs(d) ==
  IF d = <<>> THEN 0
  ELSE (IF Head(d).expected_in = NULL THEN 0
        ELSE ShiftSeconds(hr_attendance_history[CHOOSE h \in JoinedTo(Head(d)) : TRUE].clock_in,
                          hr_attendance_history[CHOOSE h \in JoinedTo(Head(d)) : TRUE].clock_out))
       + ResolvedShiftSecs(Tail(d))

\* C25: every run of reconcile_range that returns rows shows its totals, and
\* the expected-hours total is the sum of the expected hours of the punch
\* days whose schedule resolved: a day without a schedule adds nothing.
C25_ExpectedHoursSum ==
  (out.page = "range" /\ out.df # <<>>) =>
    /\ out.totals # NULL
    /\ out.totals[1].Required = round_half_even(ResolvedShiftSecs(out.df), 36)

\* C26: a resolution gap makes no operation fail: a run of the Daily Grid or
\* of the Employee Log History over a punch that no schedule row covers shows
\* its rows, with the expected clock-in and the expected hours absent, and
\* the monthly summary of an employee without a salary record covering the
\* first day of the month has base 0.
C26_GapsAbsorbed ==
  /\ \A k \in ShownRows :
       schedule_join(hr_attendance_history, out.df[k].employeeid,
                     out.df[k].punch_date) = {} =>
         /\ out.df[k].expected_in = NULL
         /\ out.df[k].shift_hours = NULL
         /\ out.status = "shown"
  /\ \A m \in Months, eid \in hr_employee :
       CoveringRows(hr_salary_history, eid, FirstDay(m)) = {} =>
         \A df \in fetch_month(hr_employee, hr_salary_history, hr_salary_log,
                                hr_attendance, m) : df[eid].base = 0

\* C27: whatever writes the program has made, a monthly summary held in the
\* cache is one that fetch_month computes on the current tables, so the
\* preview and the snapshot the finalize takes are never stale.
C27_CacheNeverStale ==
  \A m \in Months :
    cache[m] # <<>> =>
      cache[m][1] \in fetch_month(hr_employee, hr_salary_history, hr_salary_log,
                                  hr_attendance, m)

\* C28: after any sequence of hires and raises every salary-history row that
\* has an effective_to starts on or before it, whichever month of the select
\* box the raise was made effective.
C28_WindowsNotInverted ==
  \A i \in 1..Len(hr_salary_history) :
    hr_salary_history[i].effective_to # NULL =>
      hr_salary_history[i].effective_from <= hr_salary_history[i].effective_to[1]

\* the salary-history rows of an employee
RowsOf(hist, eid) == {i \in 1..Len(hist) : hist[i].employeeid = eid}

\* the earliest effective_from of an employee that has salary history
EarliestFrom(hist, eid) ==
  CHOOSE d \in {hist[i].effective_from : i \in RowsOf(hist, eid)} :
    \A i \in RowsOf(hist, eid) : d <= hist[i].effective_from

\* C29: after any sequence of hires and raises every date on or after the
\* earliest effective_from of an employee lies in the window of one of the
\* employee's salary-history rows, and the base of a month that starts on
\* or after that date is never 0.
C29_NoGap ==
  \A eid \in hr_employee :
    /\ RowsOf(hr_salary_history, eid) # {}
    /\ \A d \in 0..(LastDay(MaxMonth) + 1) :
         d >= EarliestFrom(hr_salary_history, eid) =>
           CoveringRows(hr_salary_history, eid, d) # {}
    /\ \A m \in Months :
         FirstDay(m) >= EarliestFrom(hr_salary_history, eid) =>
           0 \notin base_of(hr_salary_history, eid, FirstDay(m))

\* C29 witness: an employee hired in month 0 whose salary was raised from a
\* later month and then once more: three rows, the oldest closed on the eve
\* of its successor
C29_Witness ==
  \E eid \in hr_employee :
    /\ Cardinality(RowsOf(hr_salary_history, eid)) = 3
    /\ \E i, j \in RowsOf(hr_salary_history, eid) :
         /\ hr_salary_history[i].effective_to # NULL
         /\ hr_salary_history[i].effective_from <= hr_salary_history[i].effective_to[1]
         /\ hr_salary_history[j].effective_from = hr_salary_history[i].effective_to[1] + 1

\* C30: the Monthly Payroll Review shows, for every employee and the month
\* picked, the base, bonus, extra, fine and net that the Employee Salary
\* summary computes for that month.
C30_SummariesAgree ==
  out.page = "review" =>
    \A eid \in hr_employee :
      \A df \in fetch_month(hr_employee, hr_salary_history, hr_salary_log,
                             hr_attendance, out.month) :
        /\ out.df[eid].base  = <<df[eid].base>>
        /\ out.df[eid].bonus = df[eid].bonus
        /\ out.df[eid].extra = df[eid].extra
        /\ out.df[eid].fine  = df[eid].fine
        /\ out.df[eid].net   = <<df[eid].net>>
====
